---- MODULE Spec2Model ----
(***************************************************************************)
(* Model of the ML inference API: the ModelLoader registry                 *)
(* (model_loader.py), the request schema (schemas.py), and the FastAPI     *)
(* application (main.py): lifespan, the log_requests middleware, the       *)
(* /health, /predict and / routes and the exception handlers.  The test    *)
(* harness operations of conftest.py / test_api.py that act on the         *)
(* registry (singleton reset, the model_loader fixture) are operations of  *)
(* the model too.                                                          *)
(*                                                                         *)
(* Optional values (Python None or a value) are sequences: <<>> is None,   *)
(* <<x>> is the value x.                                                   *)
(***************************************************************************)
EXTENDS Integers, Sequences, FiniteSets, TLC

\* ---------------------------------------------------------------- bounds
\* longest feature vector a request carries
MaxLen == 5
\* number of ModelLoader instances ever created
MaxInstances == 2
\* reloads that overlap one ModelLoader.predict call
MaxReloads == 1

\* ------------------------------------------------------ program constants
\* schemas.py: "Expected exactly 4 features"
NumFeatures == 4
\* ModelLoader._instance = None
NoInstance == 0

VARIABLES
    _instance,        \* ModelLoader._instance: NoInstance or an instance id
    created,          \* number of ModelLoader objects created so far
    _model,           \* instance id -> model handle seen through self._model
    _model_version,   \* instance id -> version seen through self._model_version
    model_loader,     \* main.model_loader: the instance bound at import time
    started,          \* the lifespan startup has run
    last,             \* the latest call: its name, arguments and what it returned;
                      \* every operation overwrites it, so while last.op names a
                      \* call the other variables are as that call left them
    running           \* calls of ModelLoader methods in progress on other
                      \* threads: where a predict call and a reload stand

vars == <<_instance, created, _model, _model_version, model_loader, started, last,
          running>>

Instances == 1..MaxInstances

\* ------------------------------------------------------------ model handles
\* The objects self._model can refer to:
\*   "None"      no model (class attribute default)
\*   "demo"      RandomForestClassifier built by create_demo_model
\*   "reg"       unpickled estimator with predict but without predict_proba
\*   "bad"       unpickled estimator whose predict raises on a 4-feature row
\*   "torch"     nn.Module with its state dict loaded (no predict attribute)
\*   "torch_raw" nn.Module as built by model_class(), state dict not loaded
\* what pickle.load can return for an artifact that unpickles
Pickled == {"None", "reg", "bad"}
\* the file at a model path: absent, unreadable, or a pickled object
SklearnArtifacts == {"missing", "corrupt"} \cup Pickled
\* outcomes of loading a checkpoint: torch not importable, file absent,
\* model_class() raises, load_state_dict/torch.load raises, all steps pass
TorchArtifacts == {"no_torch", "missing", "ctor_raises", "corrupt", "ok"}

hasattr_predict(m) == m \in {"demo", "reg", "bad"}
hasattr_predict_proba(m) == m \in {"demo"}
predict_raises(m) == m = "bad"

\* instances some reference still reaches: the module global of main.py and
\* the class attribute _instance
Live == {model_loader} \cup ({_instance} \ {NoInstance})

\* ----------------------------------------------------------- ModelLoader
is_loaded(self) == _model[self] # "None"

get_model_version(self) == _model_version[self]

\* an instance no reference reaches any more is dropped: its attributes are
\* those of a fresh object again (the class attribute defaults)
Collect(mdl, ver, keep) ==
    [m |-> [i \in Instances |-> IF i \in keep THEN mdl[i] ELSE "None"],
     v |-> [i \in Instances |-> IF i \in keep THEN ver[i] ELSE "v1.0.0"]]

\* ModelLoader(): __new__ creates an object only when _instance is None
ModelLoader_new ==
    /\ _instance # NoInstance \/ created < MaxInstances
    /\ IF _instance = NoInstance
       THEN /\ created' = created + 1
            /\ _instance' = created + 1
            /\ last' = [op |-> "ModelLoader", ret |-> created + 1]
       ELSE /\ UNCHANGED <<created, _instance>>
            /\ last' = [op |-> "ModelLoader", ret |-> _instance]
    /\ UNCHANGED <<_model, _model_version, model_loader, started, running>>

\* ModelLoader._instance = None  (conftest.setup_session, test_api resets)
ResetSingleton ==
    /\ _instance' = NoInstance
    /\ LET c == Collect(_model, _model_version, {model_loader})
       IN  /\ _model' = c.m
           /\ _model_version' = c.v
    /\ last' = [op |-> "reset", ret |-> NoInstance]
    /\ UNCHANGED <<created, model_loader, started, running>>

\* the value self._model has after load_sklearn_model, and its return value
sklearn_model_after(old, art) ==
    IF art \in {"missing", "corrupt"} THEN old ELSE art
sklearn_returns(art) == art \notin {"missing", "corrupt"}

load_sklearn_model(self, art) ==
    /\ self \in Live
    /\ _model' = [_model EXCEPT ![self] = sklearn_model_after(_model[self], art)]
    /\ last' = [op |-> "load_sklearn_model", self |-> self, art |-> art,
                ret |-> sklearn_returns(art)]
    /\ UNCHANGED <<_instance, created, _model_version, model_loader, started, running>>

\* the value self._model has after load_pytorch_model, and its return value
pytorch_model_after(old, art) ==
    CASE art \in {"no_torch", "missing", "ctor_raises"} -> old
      [] art = "corrupt" -> "torch_raw"
      [] art = "ok" -> "torch"
pytorch_returns(art) == art = "ok"

load_pytorch_model(self, art) ==
    /\ self \in Live
    /\ _model' = [_model EXCEPT ![self] = pytorch_model_after(_model[self], art)]
    /\ last' = [op |-> "load_pytorch_model", self |-> self, art |-> art,
                ret |-> pytorch_returns(art)]
    /\ UNCHANGED <<_instance, created, _model_version, model_loader, started, running>>

\* create_demo_model: ok is FALSE when the sklearn import or the fit raises
demo_model_after(old, ok) == IF ok THEN "demo" ELSE old
demo_version_after(old, ok) == IF ok THEN "demo" ELSE old

create_demo_model(self, ok) ==
    /\ self \in Live
    /\ _model' = [_model EXCEPT ![self] = demo_model_after(_model[self], ok)]
    /\ _model_version' =
          [_model_version EXCEPT ![self] = demo_version_after(_model_version[self], ok)]
    /\ last' = [op |-> "create_demo_model", self |-> self, ret |-> ok]
    /\ UNCHANGED <<_instance, created, model_loader, started, running>>

set_model_version(self, version) ==
    /\ self \in Live
    /\ _model_version' = [_model_version EXCEPT ![self] = version]
    /\ last' = [op |-> "set_model_version", self |-> self, ret |-> version]
    /\ UNCHANGED <<_instance, created, _model, model_loader, started, running>>

\* conftest.model_loader fixture: ModelLoader(), then create_demo_model()
\* unless the instance is loaded already
model_loader_fixture(ok) ==
    /\ _instance # NoInstance \/ created < MaxInstances
    /\ LET loader == IF _instance = NoInstance THEN created + 1 ELSE _instance
           call == ~is_loaded(loader)
       IN  /\ _instance' = loader
           /\ created' = IF _instance = NoInstance THEN created + 1 ELSE created
           /\ _model' = [_model EXCEPT ![loader] =
                            IF call THEN demo_model_after(@, ok) ELSE @]
           /\ _model_version' = [_model_version EXCEPT ![loader] =
                            IF call THEN demo_version_after(@, ok) ELSE @]
           /\ last' = [op |-> "model_loader_fixture", ret |-> loader]
    /\ UNCHANGED <<model_loader, started, running>>

\* ------------------------------------------------------------ the requests
\* JSON array elements of the request body: a number written with a
\* fraction, a number written as an integer, a string.  v is the number in
\* tenths.
FloatElem == [type |-> "float", v |-> 51]
IntElem == [type |-> "int", v |-> 30]
StrElem == [type |-> "str", v |-> 0]

\* numeric vectors of every length up to MaxLen
FeatureVectors ==
    UNION {{[i \in 1..n |-> IF i <= k THEN FloatElem ELSE IntElem] : k \in 0..n}
              : n \in 0..MaxLen}
\* vectors with a non-numeric element
NonNumericVectors ==
    {[i \in 1..n |-> IF i = 1 THEN StrElem ELSE FloatElem] : n \in {2, NumFeatures}}
\* the "features" field of a body: absent, or a vector
Bodies == {<<>>} \cup {<<f>> : f \in FeatureVectors \cup NonNumericVectors}
\* the inbound X-Request-ID header: absent, or a value
RequestIds == {<<>>, <<"req-1">>}

\* ---------------------------------------------------------------- schemas
\* List[float]: an int is converted to a float, a string "a" is rejected
is_number(e) == e.type \in {"float", "int"}
to_float(e) == [type |-> "float", v |-> e.v]

\* validate_features without the length check
validate_features_nolen(v) ==
    IF v = <<>> THEN "Features list cannot be empty" ELSE "ok"

\* PredictionRequest.validate_features: the ValueError it raises, or "ok"
validate_features(v) ==
    IF v = <<>> THEN "Features list cannot be empty"
    ELSE IF Len(v) # NumFeatures THEN "Expected exactly 4 features"
    ELSE "ok"

\* parsing the body into a PredictionRequest: the field must be present, a
\* list of numbers, and pass the validator; any failure is a
\* RequestValidationError
PredictionRequest(body) ==
    IF body = <<>> THEN [ok |-> FALSE, error |-> "Field required"]
    ELSE IF \E i \in 1..Len(body[1]) : ~is_number(body[1][i])
         THEN [ok |-> FALSE, error |-> "Input should be a valid number"]
    ELSE LET v == [i \in 1..Len(body[1]) |-> to_float(body[1][i])]
         IN  IF validate_features(v) = "ok"
             THEN [ok |-> TRUE, features |-> v]
             ELSE [ok |-> FALSE, error |-> validate_features(v)]

\* ------------------------------------------------------ ModelLoader.predict
\* the external classifier: a class label and the largest class probability
\* (in percent) for a row of features
model_predict(m, X) ==
    IF m = "demo" THEN (X[1].v + X[Len(X)].v) % 3 ELSE X[1].v % 2
model_predict_proba(m, X) == IF X[1].v = X[Len(X)].v THEN 100 ELSE 90

\* the model's predict was called
model_invoked(m) == m # "None" /\ hasattr_predict(m)

\* the probability with 0 standing in when the model has no predict_proba
probability_or_zero(m, X) ==
    IF hasattr_predict_proba(m) THEN <<model_predict_proba(m, X)>> ELSE <<0>>

\* lines 138-141: None unless the model has predict_proba
probability_of(m, X) ==
    IF hasattr_predict_proba(m) THEN <<model_predict_proba(m, X)>> ELSE <<>>

\* the dict returned, or None (<<>>), when self._model is m and
\* self._model_version is v throughout the call
predict_result(m, v, features) ==
    IF m = "None" THEN <<>>
    ELSE IF hasattr_predict(m)
         THEN IF predict_raises(m) THEN <<>>
              ELSE <<[prediction |-> model_predict(m, features),
                      probability |-> probability_of(m, features),
                      model_version |-> v]>>
    ELSE <<>>

\* ModelLoader.predict run without interruption
ModelLoader_predict(self, features) ==
    predict_result(_model[self], _model_version[self], features)

\* ------------------------------------------------------------ main.py routes
\* health_check reporting a fixed status
health_check_fixed ==
    [kind |-> "return", status |-> 200, invoked |-> FALSE,
     body |-> [status |-> "healthy",
               model_loaded |-> is_loaded(model_loader),
               model_version |-> IF is_loaded(model_loader)
                                 THEN <<get_model_version(model_loader)>> ELSE <<>>]]

\* GET /health
health_check ==
    [kind |-> "return", status |-> 200, invoked |-> FALSE,
     body |-> [status |-> IF is_loaded(model_loader) THEN "healthy" ELSE "degraded",
               model_loaded |-> is_loaded(model_loader),
               model_version |-> IF is_loaded(model_loader)
                                 THEN <<get_model_version(model_loader)>> ELSE <<>>]]

\* predict without the readiness check
predict_nocheck(features) ==
    LET result == ModelLoader_predict(model_loader, features)
        invoked == model_invoked(_model[model_loader])
    IN  IF result = <<>>
        THEN [kind |-> "HTTPException", status |-> 500, invoked |-> invoked,
              detail |-> "Error during prediction. Check logs for details."]
        ELSE [kind |-> "return", status |-> 200, invoked |-> invoked,
              body |-> [prediction |-> result[1].prediction,
                        probability |-> result[1].probability,
                        model_version |-> result[1].model_version,
                        input_features |-> features]]

\* predict answering with the features in reverse order
predict_reversed(features) ==
    IF ~is_loaded(model_loader)
    THEN [kind |-> "HTTPException", status |-> 503, invoked |-> FALSE,
          detail |-> "Model is not loaded. Please check health endpoint."]
    ELSE LET result == ModelLoader_predict(model_loader, features)
             invoked == model_invoked(_model[model_loader])
         IN  IF result = <<>>
             THEN [kind |-> "HTTPException", status |-> 500, invoked |-> invoked,
                   detail |-> "Error during prediction. Check logs for details."]
             ELSE [kind |-> "return", status |-> 200, invoked |-> invoked,
                   body |-> [prediction |-> result[1].prediction,
                             probability |-> result[1].probability,
                             model_version |-> result[1].model_version,
                             input_features |->
                                [i \in 1..Len(features) |->
                                    features[Len(features) + 1 - i]]]]

\* POST /predict, once the body is a PredictionRequest
predict(features) ==
    IF ~is_loaded(model_loader)
    THEN [kind |-> "HTTPException", status |-> 503, invoked |-> FALSE,
          detail |-> "Model is not loaded. Please check health endpoint."]
    ELSE LET result == ModelLoader_predict(model_loader, features)
             invoked == model_invoked(_model[model_loader])
         IN  IF result = <<>>
             THEN [kind |-> "HTTPException", status |-> 500, invoked |-> invoked,
                   detail |-> "Error during prediction. Check logs for details."]
             ELSE [kind |-> "return", status |-> 200, invoked |-> invoked,
                   body |-> [prediction |-> result[1].prediction,
                             probability |-> result[1].probability,
                             model_version |-> result[1].model_version,
                             input_features |-> features]]

\* GET /
root ==
    [kind |-> "return", status |-> 200, invoked |-> FALSE,
     body |-> [name |-> "ML Inference API", version |-> "1.0.0",
               endpoints |-> [health |-> "/health", predict |-> "/predict",
                              docs |-> "/docs", openapi |-> "/openapi.json"]]]

\* what the route produces for a request: the body is parsed before the
\* handler runs
route(path, body) ==
    CASE path = "/health" -> health_check
      [] path = "/" -> root
      [] path = "/predict" ->
            LET req == PredictionRequest(body)
            IN  IF req.ok THEN predict(req.features)
                ELSE [kind |-> "RequestValidationError", status |-> 422,
                      invoked |-> FALSE, detail |-> req.error]

\* @app.exception_handler(ValueError)
value_error_handler(exc) ==
    [status |-> 400, handled_by |-> "value_error_handler",
     body |-> [detail |-> exc.detail, error_code |-> <<"VALIDATION_ERROR">>]]

\* @app.exception_handler(Exception)
general_exception_handler(exc) ==
    [status |-> 500, handled_by |-> "general_exception_handler",
     body |-> [detail |-> "Internal server error. Check logs for details.",
               error_code |-> <<"INTERNAL_ERROR">>]]

\* the response the application builds from what the route produced: a
\* returned model is serialised with the route's status code; HTTPException
\* and RequestValidationError go to the framework's handlers, which answer
\* with the exception's status and a body that has a detail and no
\* error_code; ValueError and any other exception go to the handlers above
to_response(out) ==
    CASE out.kind = "return" ->
            [status |-> out.status, handled_by |-> "route", body |-> out.body]
      [] out.kind \in {"HTTPException", "RequestValidationError"} ->
            [status |-> out.status, handled_by |-> "framework",
             body |-> [detail |-> out.detail, error_code |-> <<>>]]
      [] out.kind = "ValueError" -> value_error_handler(out)
      [] OTHER -> general_exception_handler(out)

\* the log_requests middleware around call_next: the headers are set on the
\* response call_next returned; an exception that reaches the middleware is
\* re-raised and its response (built outside the middleware) has no headers
\* the request id when the inbound header is ignored
request_id_ignored(header) == "unknown"

\* request.headers.get("X-Request-ID", "unknown")
request_id_of(header) == IF header = <<>> THEN "unknown" ELSE header[1]

log_requests(header, out) ==
    LET response == to_response(out)
    IN  IF response.handled_by = "general_exception_handler"
        THEN [status |-> response.status, body |-> response.body,
              headers |-> [XProcessTime |-> <<>>, XRequestID |-> <<>>]]
        ELSE [status |-> response.status, body |-> response.body,
              headers |-> [XProcessTime |-> <<"seconds">>,
                           XRequestID |-> <<request_id_of(header)>>]]

\* one HTTP request served by the application
Request(path, body, header) ==
    /\ path = "/predict" \/ body = <<>>
    /\ LET out == route(path, body)
       IN  last' = [op |-> "request", path |-> path, body |-> body,
                    header |-> header,
                    invoked |-> out.invoked,
                    response |-> log_requests(header, out)]
    /\ UNCHANGED <<_instance, created, _model, _model_version, model_loader, started, running>>

\* lifespan startup: MODEL_PATH is unset (<<>>) or names an artifact
lifespan(model_path, demo_ok) ==
    /\ ~started
    /\ LET self == model_loader
           load_ok == model_path # <<>> /\ sklearn_returns(model_path[1])
           m1 == IF model_path # <<>>
                 THEN sklearn_model_after(_model[self], model_path[1])
                 ELSE _model[self]
           demo == ~load_ok
       IN  /\ _model' = [_model EXCEPT ![self] =
                            IF demo THEN demo_model_after(m1, demo_ok) ELSE m1]
           /\ _model_version' = [_model_version EXCEPT ![self] =
                            IF demo THEN demo_version_after(@, demo_ok) ELSE @]
           /\ last' = [op |-> "lifespan", model_path |-> model_path,
                       load_ok |-> load_ok, demo_called |-> demo,
                       ret |-> IF demo THEN demo_ok ELSE TRUE]
    /\ started' = TRUE
    /\ UNCHANGED <<_instance, created, model_loader, running>>

\* ------------------------------------------- ModelLoader used concurrently
\* ModelLoader has no lock: when predict runs on one thread while another
\* thread reloads, every read of self._model and self._model_version in
\* predict (lines 126, 134, 135, 139, 140, 146) sees whatever the reload has
\* written so far.  running.predict is the predict call between its reads,
\* running.reload the create_demo_model call between its two assignments.
NoPredict == [pc |-> "idle"]
NoReload == [pc |-> "idle"]
Idle == [predict |-> NoPredict, reload |-> NoReload]

\* the registry as a pair: handle and version tag
Registry(self) == <<_model[self], _model_version[self]>>

\* the feature rows a validated request hands to ModelLoader.predict
ValidRows == {PredictionRequest(b).features : b \in {c \in Bodies : PredictionRequest(c).ok}}

\* a reload may begin: no other reload is running, and the predict call in
\* progress has not been overlapped MaxReloads times
MayReload ==
    /\ running.reload.pc = "idle"
    /\ running.predict.pc # "idle" => running.predict.reloads < MaxReloads

\* the predict call in progress after a reload began / completed
ReloadBegun(p) ==
    IF p.pc = "idle" THEN p ELSE [p EXCEPT !.reloads = @ + 1]
ReloadDone(p, after) ==
    IF p.pc = "idle" THEN p ELSE [p EXCEPT !.seen = @ \cup {after}]

\* predict is called (line 125): seen collects the registry states the call
\* overlaps, as they are before and after each reload
predict_begin(features) ==
    /\ running.predict.pc = "idle"
    /\ running' = [running EXCEPT !.predict =
          [pc |-> "126", features |-> features,
           prediction |-> <<>>, probability |-> <<>>,
           reloads |-> IF running.reload.pc = "idle" THEN 0 ELSE 1,
           seen |-> IF running.reload.pc = "idle"
                    THEN {Registry(model_loader)}
                    ELSE {running.reload.before}]]
    /\ last' = [op |-> "predict_begin", ret |-> features]
    /\ UNCHANGED <<_instance, created, _model, _model_version, model_loader, started>>

\* the call returns ret
predict_return(ret) ==
    /\ running' = [running EXCEPT !.predict = NoPredict]
    /\ last' = [op |-> "ModelLoader.predict",
                features |-> running.predict.features,
                seen |-> running.predict.seen, ret |-> ret]
    /\ UNCHANGED <<_instance, created, _model, _model_version, model_loader, started>>

\* the call moves on to the read at line pc
predict_goto(pc, prediction, probability) ==
    /\ running' = [running EXCEPT !.predict.pc = pc,
                                  !.predict.prediction = prediction,
                                  !.predict.probability = probability]
    /\ last' = [op |-> "predict_step", ret |-> pc]
    /\ UNCHANGED <<_instance, created, _model, _model_version, model_loader, started>>

\* line 126: if self._model is None: return None
predict_126 ==
    /\ running.predict.pc = "126"
    /\ IF _model[model_loader] = "None"
       THEN predict_return(<<>>)
       ELSE predict_goto("134", <<>>, <<>>)

\* line 134: hasattr(self._model, 'predict'), else return None
predict_134 ==
    /\ running.predict.pc = "134"
    /\ IF hasattr_predict(_model[model_loader])
       THEN predict_goto("135", <<>>, <<>>)
       ELSE predict_return(<<>>)

\* line 135: self._model.predict(X)[0]; an exception returns None
predict_135 ==
    /\ running.predict.pc = "135"
    /\ LET m == _model[model_loader]
       IN  IF ~hasattr_predict(m) \/ predict_raises(m)
           THEN predict_return(<<>>)
           ELSE predict_goto("139", <<model_predict(m, running.predict.features)>>, <<>>)

\* line 139: hasattr(self._model, 'predict_proba')
predict_139 ==
    /\ running.predict.pc = "139"
    /\ IF hasattr_predict_proba(_model[model_loader])
       THEN predict_goto("140", running.predict.prediction, <<>>)
       ELSE predict_goto("146", running.predict.prediction, <<>>)

\* lines 140-141: self._model.predict_proba(X)[0]; an exception returns None
predict_140 ==
    /\ running.predict.pc = "140"
    /\ LET m == _model[model_loader]
       IN  IF ~hasattr_predict_proba(m)
           THEN predict_return(<<>>)
           ELSE predict_goto("146", running.predict.prediction,
                             <<model_predict_proba(m, running.predict.features)>>)

\* lines 143-147: the dict, with self._model_version as it is now
predict_146 ==
    /\ running.predict.pc = "146"
    /\ predict_return(<<[prediction |-> running.predict.prediction[1],
                         probability |-> running.predict.probability,
                         model_version |-> _model_version[model_loader]]>>)

\* create_demo_model line 106: self._model = model
demo_106 ==
    /\ MayReload
    /\ _model' = [_model EXCEPT ![model_loader] = demo_model_after(@, TRUE)]
    /\ running' = [predict |-> ReloadBegun(running.predict),
                   reload |-> [pc |-> "107", before |-> Registry(model_loader)]]
    /\ last' = [op |-> "demo_106", ret |-> "demo"]
    /\ UNCHANGED <<_instance, created, _model_version, model_loader, started>>

\* create_demo_model line 107: self._model_version = "demo"
demo_107 ==
    /\ running.reload.pc = "107"
    /\ _model_version' =
          [_model_version EXCEPT ![model_loader] = demo_version_after(@, TRUE)]
    /\ running' = [predict |-> ReloadDone(running.predict,
                                  <<_model[model_loader],
                                    demo_version_after(_model_version[model_loader], TRUE)>>),
                   reload |-> NoReload]
    /\ last' = [op |-> "create_demo_model", self |-> model_loader, ret |-> TRUE]
    /\ UNCHANGED <<_instance, created, _model, model_loader, started>>

\* load_sklearn_model on the other thread: its one assignment, line 44
reload_sklearn(art) ==
    /\ MayReload
    /\ sklearn_returns(art)
    /\ _model' = [_model EXCEPT ![model_loader] = sklearn_model_after(@, art)]
    /\ running' = [running EXCEPT !.predict =
          ReloadDone(ReloadBegun(running.predict),
                     <<sklearn_model_after(_model[model_loader], art),
                       _model_version[model_loader]>>)]
    /\ last' = [op |-> "load_sklearn_model", self |-> model_loader, art |-> art,
                ret |-> sklearn_returns(art)]
    /\ UNCHANGED <<_instance, created, _model_version, model_loader, started>>

Init ==
    /\ _instance = 1
    /\ created = 1
    /\ model_loader = 1
    /\ _model = [i \in Instances |-> "None"]
    /\ _model_version = [i \in Instances |-> "v1.0.0"]
    /\ started = FALSE
    /\ last = [op |-> "import", ret |-> 1]
    /\ running = Idle

Next ==
    \/ ModelLoader_new
    \/ ResetSingleton
    \/ \E self \in Instances, art \in TorchArtifacts : load_pytorch_model(self, art)
    \/ \E self \in Instances, art \in SklearnArtifacts : load_sklearn_model(self, art)
    \/ \E self \in Instances, ok \in BOOLEAN : create_demo_model(self, ok)
    \/ \E self \in Instances : set_model_version(self, "v2.0.0")
    \/ \E ok \in BOOLEAN : model_loader_fixture(ok)
    \/ \E path \in {"/health", "/predict", "/"}, body \in Bodies, header \in RequestIds :
          Request(path, body, header)
    \/ \E model_path \in {<<>>} \cup {<<a>> : a \in SklearnArtifacts}, demo_ok \in BOOLEAN :
          lifespan(model_path, demo_ok)

Spec == Init /\ [][Next]_vars

\* the registry of the request handler used by a predicting thread and a
\* reloading thread at once
NextConc ==
    \/ \E features \in ValidRows : predict_begin(features)
    \/ predict_126
    \/ predict_134
    \/ predict_135
    \/ predict_139
    \/ predict_140
    \/ predict_146
    \/ demo_106
    \/ demo_107
    \/ \E art \in SklearnArtifacts : reload_sklearn(art)

SpecConc == Init /\ [][NextConc]_vars

\* ------------------------------------------------------------ the claims
\* the latest call was a request to the given path
Served(path) == last.op = "request" /\ last.path = path

\* the body carries a features list
HasFeatures == last.body # <<>>
Submitted == last.body[1]

\* a well-formed body: four numbers
WellFormed ==
    /\ HasFeatures
    /\ Len(Submitted) = NumFeatures
    /\ \A i \in 1..Len(Submitted) : is_number(Submitted[i])

\* the features as the handler receives them
Parsed == PredictionRequest(last.body).features

\* Python's == on two lists of numbers
ListEq(a, b) == Len(a) = Len(b) /\ \A i \in 1..Len(a) : a[i].v = b[i].v

\* C1: a feature vector whose length is not 4 (the empty list included) is
\* answered with 422 whether or not a model is loaded, and the model is not
\* invoked.
C1_WrongLengthIs422 ==
    (Served("/predict") /\ HasFeatures /\ Len(Submitted) # NumFeatures)
        => (last.response.status = 422 /\ ~last.invoked)

\* C1 witness: a two-element numeric vector sent while no model is loaded
C1_Witness ==
    /\ Served("/predict") /\ HasFeatures /\ Len(Submitted) = 2
    /\ \A i \in 1..2 : is_number(Submitted[i])
    /\ ~is_loaded(model_loader)
    /\ last.response.status = 422

C4_Unloaded503 ==
    (Served("/predict") /\ WellFormed /\ ~is_loaded(model_loader))
        => (last.response.status = 503 /\ ~last.invoked)

\* C4 witness: such a request, answered 503
C4_Witness ==
    /\ Served("/predict") /\ WellFormed /\ ~is_loaded(model_loader)
    /\ last.response.status = 503

\* C5: the POST /predict with valid input that follows a reset of the
\* singleton (ModelLoader._instance = None) is answered with 503.
C5_ResetThen503 ==
    [][(last.op = "reset" /\ last'.op = "request" /\ last'.path = "/predict"
           /\ PredictionRequest(last'.body).ok)
        => last'.response.status = 503]_vars

\* C6: when the prediction fails after validation (ModelLoader.predict
\* returns None on a loaded registry) the answer is 500 with error_code
\* INTERNAL_ERROR.
C6_FailureIsInternalError ==
    (Served("/predict") /\ WellFormed /\ is_loaded(model_loader)
        /\ ModelLoader_predict(model_loader, Parsed) = <<>>)
        => /\ last.response.status = 500
           /\ last.response.body.error_code = <<"INTERNAL_ERROR">>

\* C7: every response carries X-Process-Time, and X-Request-ID with the
\* inbound header's value, or "unknown" when the request had none.
C7_HeadersOnEveryResponse ==
    last.op = "request"
        => /\ last.response.headers.XProcessTime # <<>>
           /\ last.response.headers.XRequestID =
                 IF last.header = <<>> THEN <<"unknown">> ELSE last.header

\* C7 witness: a 500 answer to a request that carried an id
C7_Witness ==
    /\ Served("/predict") /\ last.header = <<"req-1">>
    /\ last.response.status = 500
    /\ last.response.headers.XRequestID = <<"req-1">>
    /\ last.response.headers.XProcessTime # <<>>

\* C8: every ModelLoader() call returns the instance the request handler
\* uses, so both see the same model and version.
C8_OneInstance ==
    last.op \in {"ModelLoader", "model_loader_fixture"}
        => /\ last.ret = model_loader
           /\ _model[last.ret] = _model[model_loader]
           /\ _model_version[last.ret] = _model_version[model_loader]

\* C9: when the startup has completed the registry is loaded: with the demo
\* model and version "demo" if no path was configured or the load failed,
\* with the loaded model and no demo construction if the load succeeded.
C9_StartupLoads ==
    last.op = "lifespan"
        => /\ is_loaded(model_loader)
           /\ ~last.load_ok => /\ _model[model_loader] = "demo"
                               /\ _model_version[model_loader] = "demo"
           /\ last.load_ok => /\ ~last.demo_called
                              /\ _model[model_loader] = last.model_path[1]

\* C10: serving requests and loading never unloads a loaded registry; a
\* registry becomes loaded only through a load that reports success, and a
\* load that reports success leaves it loaded.
C10_LoadedStaysLoaded ==
    [][\A self \in Instances :
          (last'.op \in {"load_sklearn_model", "load_pytorch_model",
                         "create_demo_model", "set_model_version", "request"}
              /\ self \in Live)
          => /\ is_loaded(self) => is_loaded(self)'
             /\ (~is_loaded(self) /\ is_loaded(self)')
                   => (last'.op # "request" /\ last'.op # "set_model_version"
                          /\ last'.self = self /\ last'.ret = TRUE)
             /\ (last'.op \in {"load_sklearn_model", "load_pytorch_model",
                               "create_demo_model"}
                    /\ last'.self = self /\ last'.ret = TRUE)
                   => is_loaded(self)']_vars

\* C12: a successful prediction carries a probability exactly when the
\* active model has predict_proba; without it the probability is None and
\* the answer is still 200.
C12_ProbabilityIffCapability ==
    (Served("/predict") /\ WellFormed /\ is_loaded(model_loader)
        /\ ModelLoader_predict(model_loader, Parsed) # <<>>)
        => /\ last.response.status = 200
           /\ (last.response.body.probability # <<>>)
                 <=> hasattr_predict_proba(_model[model_loader])
           /\ (last.response.body.probability # <<>>)
                 => last.response.body.probability =
                       <<model_predict_proba(_model[model_loader], Parsed)>>

\* C12 witness: a model without predict_proba answers 200 with no probability
C12_Witness ==
    /\ Served("/predict") /\ WellFormed
    /\ hasattr_predict(_model[model_loader])
    /\ ~hasattr_predict_proba(_model[model_loader])
    /\ last.response.status = 200
    /\ last.response.body.probability = <<>>

\* C13: a load that reports failure leaves the model handle, the readiness
\* and the version of every registry as they were.
C13_FailedLoadChangesNothing ==
    [][(last'.op \in {"load_sklearn_model", "load_pytorch_model"}
           /\ last'.ret = FALSE)
        => (_model' = _model /\ _model_version' = _model_version)]_vars

\* the version tag says "demo" exactly when the handle is the demo model
VersionDescribesHandle(self) ==
    (_model_version[self] = "demo") <=> (_model[self] = "demo")

\* C14: create_demo_model and successful loads keep the version tag in
\* step with the active handle: starting from a registry whose tag
\* describes its handle, the tag is "demo" afterwards iff the handle is the
\* demo model.
C14_VersionFollowsHandle ==
    [][\A self \in Instances :
          (last'.op \in {"create_demo_model", "load_sklearn_model",
                         "load_pytorch_model"}
              /\ last'.self = self /\ last'.ret = TRUE
              /\ VersionDescribesHandle(self))
          => VersionDescribesHandle(self)']_vars

====
